---------------------------- MODULE Spec2Model ----------------------------
(***************************************************************************)
(* Model of Theseus/rust/src/optimizer.rs: the L-BFGS-B optimisation       *)
(* driver `optimize` with its parameter codec (pack_parameters /            *)
(* unpack_parameters), bound helpers (parameter_bounds, project_to_bounds,  *)
(* perturb_interior), the objective closure, the iteration callback and     *)
(* the restart loop.                                                        *)
(*                                                                          *)
(* Numbers.  f64 parameters (force densities, anchor coordinates, bounds)   *)
(* are fixed-point integers in units of 1/Unit; Unit = 100^3 makes the      *)
(* three possible restart perturbations (each a division by 100) exact.     *)
(* Losses are plain integers.  +infinity / -infinity are PosInf / NegInf,   *)
(* and every arithmetic operator that can meet them follows IEEE-754.       *)
(*                                                                          *)
(* The quasi-Newton library (lbfgsb_rs_pure) and the forward/adjoint solve  *)
(* (value_and_gradient, FdmCache::new, solve_fdm) are outside this file of  *)
(* the repository: they appear as nondeterministic steps that draw their    *)
(* answers from small sets.                                                 *)
(***************************************************************************)
EXTENDS Integers, Sequences, FiniteSets, TLC

\* ------------------------------------------------------------------------
\*  Bounds of the exploration
\* ------------------------------------------------------------------------

\* Evaluations of one run at which the library's point and the oracle's
\* answer are drawn freely, any number of them inside one iteration (line
\* search); later evaluations repeat the last request, one per iteration.
MaxFresh == 2
\* Iterations within which the library may give up a sub-search on its own
\* (line-search failure or Err); after them it runs to a stop or to its cap.
MaxEarly == 1
\* Codec check: largest edge count and largest variable-anchor count.
MaxEdges == 2
MaxAnchors == 2

\* ------------------------------------------------------------------------
\*  Program constants
\* ------------------------------------------------------------------------

MAX_RESTARTS == 3
MIN_ITERATIONS_BEFORE_CONVERGENCE == 10
CONVERGENCE_WINDOW == 5

\* The closure's penalty factor 1e6.
PenaltyFactor == 1000000
\* The iteration budget below which no sub-search is started.
MinRemaining == 5

\* ------------------------------------------------------------------------
\*  f64 helpers
\* ------------------------------------------------------------------------

Unit == 100 * 100 * 100
PosInf == 2000 * Unit
NegInf == 0 - PosInf

IsInf(v) == v = PosInf \/ v = NegInf
IsFinite(v) == ~IsInf(v)
AllFinite(s) == \A i \in 1..Len(s) : IsFinite(s[i])

Abs(v) == IF v < 0 THEN 0 - v ELSE v
Max(a, b) == IF a >= b THEN a ELSE b
Min(a, b) == IF a <= b THEN a ELSE b

\* f64 multiplication by a positive finite factor k.
FMulPos(v, k) == IF IsInf(v) THEN v ELSE v * k

InBox(theta, lb, ub) ==
    \A i \in 1..Len(theta) : lb[i] <= theta[i] /\ theta[i] <= ub[i]

Zeros(n) == [i \in 1..n |-> 0]

\* ------------------------------------------------------------------------
\*  Parameter packing / unpacking
\* ------------------------------------------------------------------------

\* The anchor matrix is a sequence of rows, each <<x, y, z>>.
Flatten(rows) ==
    [k \in 1..(3 * Len(rows)) |-> rows[((k - 1) \div 3) + 1][((k - 1) % 3) + 1]]

pack_parameters(p, st) ==
    IF p.nvar > 0
    THEN st.force_densities \o
         Flatten([i \in 1..p.nvar |-> st.variable_anchor_positions[i]])
    ELSE st.force_densities

\* Mutant: the anchor block is read column-major.
unpack_column_major(p, theta) ==
    << SubSeq(theta, 1, p.ne),
       IF p.nvar > 0
       THEN [i \in 1..p.nvar |->
               << theta[p.ne + i],
                  theta[p.ne + p.nvar + i],
                  theta[p.ne + 2 * p.nvar + i] >>]
       ELSE << >> >>

unpack_parameters(p, theta) ==
    LET q == SubSeq(theta, 1, p.ne)
        anchors ==
            IF p.nvar > 0
            THEN [i \in 1..p.nvar |->
                    << theta[p.ne + (i - 1) * 3 + 1],
                       theta[p.ne + (i - 1) * 3 + 2],
                       theta[p.ne + (i - 1) * 3 + 3] >>]
            ELSE << >>
    IN  << q, anchors >>

\* ------------------------------------------------------------------------
\*  Bound precomputation
\* ------------------------------------------------------------------------

parameter_bounds(p) ==
    IF p.nvar > 0
    THEN << p.lower \o [i \in 1..(p.nvar * 3) |-> NegInf],
            p.upper \o [i \in 1..(p.nvar * 3) |-> PosInf] >>
    ELSE << p.lower, p.upper >>

\* Mutant: the upper clamp is forgotten.
project_lower_only(xs, lb, ub) ==
    [i \in 1..Len(xs) |-> IF xs[i] < lb[i] THEN lb[i] ELSE xs[i]]

project_to_bounds(xs, lb, ub) ==
    [i \in 1..Len(xs) |->
        LET a == IF xs[i] < lb[i] THEN lb[i] ELSE xs[i]
        IN  IF a > ub[i] THEN ub[i] ELSE a]

\* Mutant: the test for infinite bounds is missing; the midpoint is then
\* infinite and the entry ends on its infinite bound.
perturb_unchecked(xs, lb, ub, ne, strength) ==
    [i \in 1..Len(xs) |->
        IF i > ne THEN xs[i]
        ELSE IF lb[i] = NegInf THEN NegInf
        ELSE IF ub[i] = PosInf THEN PosInf
        ELSE IF ub[i] - lb[i] <= 0 THEN xs[i]
        ELSE LET nudge == ((lb[i] + ub[i] - 2 * xs[i]) * strength) \div 200
             IN  Min(Max(xs[i] + nudge, lb[i]), ub[i])]

\* `strength` is given in hundredths (0.02 * restart is 2 * restart).
perturb_interior(xs, lb, ub, ne, strength) ==
    [i \in 1..Len(xs) |->
        IF i > ne THEN xs[i]
        ELSE IF IsInf(ub[i]) \/ IsInf(lb[i]) THEN xs[i]
        ELSE IF ub[i] - lb[i] <= 0 THEN xs[i]
        ELSE LET nudge == ((lb[i] + ub[i] - 2 * xs[i]) * strength) \div 200
             IN  Min(Max(xs[i] + nudge, lb[i]), ub[i])]

\* ------------------------------------------------------------------------
\*  Inputs of a run
\* ------------------------------------------------------------------------

\* Per-edge bound pairs and the solver options of the explored problems:
\* a finite box [1, 3]; an edge with no upper bound beside an edge whose box
\* is the single point 2; and a finite box with one variable anchor.
BoundCases ==
    { [ne |-> 1, nvar |-> 0, lower |-> << Unit >>, upper |-> << 3 * Unit >>],
      [ne |-> 2, nvar |-> 0, lower |-> << Unit, 2 * Unit >>,
                             upper |-> << PosInf, 2 * Unit >>],
      [ne |-> 1, nvar |-> 1, lower |-> << Unit >>, upper |-> << 3 * Unit >>] }

MaxIterChoices == {4, 5, 10}

\* max_iterations explored with the bounds b: below the restart threshold
\* and at the convergence floor for the finite box, just at the threshold
\* for the others.
BudgetsOf(b) ==
    IF b.ne = 1 /\ b.nvar = 0
    THEN { m \in MaxIterChoices : m # MinRemaining }
    ELSE { m \in MaxIterChoices : m = MinRemaining }

Problems ==
    { [ne |-> b[1].ne, nvar |-> b[1].nvar, lower |-> b[1].lower,
       upper |-> b[1].upper, max_iterations |-> b[2],
       absolute_tolerance |-> 1, relative_tolerance |-> << 1, 2 >>] :
      b \in { c \in BoundCases \X MaxIterChoices : c[2] \in BudgetsOf(c[1]) } }

\* The caller's OptimizationState before the run: a guess below the box
\* (q = -10 for [1, 3]), one with a component above it, and one inside it
\* with an infinite anchor coordinate.
InitialGuesses(p) ==
    IF p.nvar = 1
    THEN { [force_densities |-> << 2 * Unit >>,
            variable_anchor_positions |-> << << 0, Unit, PosInf >> >>] }
    ELSE IF p.ne = 2
    THEN { [force_densities |-> << Unit, 5 * Unit >>,
            variable_anchor_positions |-> << >>] }
    ELSE { [force_densities |-> << q >>, variable_anchor_positions |-> << >>] :
           q \in {0 - 10 * Unit} }

InitialStates(p) ==
    { [force_densities |-> g.force_densities,
       variable_anchor_positions |-> g.variable_anchor_positions,
       iterations |-> 0, loss_trace |-> << >>] : g \in InitialGuesses(p) }

\* What value_and_gradient may answer: Ok(loss) with a gradient whose
\* components all equal g, or Err.  One answer is non-finite.
Outcomes ==
    { [ok |-> TRUE, val |-> 1, g |-> 1],
      [ok |-> TRUE, val |-> 0 - 2, g |-> 2],
      [ok |-> TRUE, val |-> PosInf, g |-> PosInf],
      [ok |-> FALSE, val |-> 0, g |-> 0] }

\* progress_cb and report_freq as the caller passes them: no callback; a
\* callback with report_freq 0 (normalised to 1) and with report_freq 2.
Callers == { << FALSE, 1 >>, << TRUE, 0 >>, << TRUE, 2 >> }

\* The callers explored with problem p: the finite box without a callback,
\* the unbounded edge with report_freq 0, the variable anchor with
\* report_freq 2.
CallersOf(p) ==
    IF p.nvar > 0 THEN { c \in Callers : c[2] = 2 }
    ELSE IF p.ne = 2 THEN { c \in Callers : c[2] = 0 }
    ELSE { c \in Callers : ~c[1] }

\* Projected-gradient norms the library may report (absolute_tolerance is 1).
ProjGradNorms == {0, 2}

\* ------------------------------------------------------------------------
\*  State
\* ------------------------------------------------------------------------

VARIABLES
    problem,            \* &Problem
    state,              \* &mut OptimizationState of the caller
    progress_cb,        \* Option<ProgressCallback>: TRUE is Some
    report_freq,        \* the argument, before its normalisation
    workspace_ok,       \* whether FdmCache::new(problem) succeeds
    pc,                 \* position in optimize
    x, global_best_x, global_best_f, all_traces, total_iterations,
    final_status, was_cancelled, restart,
    loss_trace, cancelled, best_x, best_f, last_valid_grad, recent_f,
    lib,                \* the library's counters inside minimize_with_callback
    ctl,                \* the last IterationControl the callback returned
    since_cb,           \* evaluations since the last iteration callback
    result,             \* what optimize returned
    obs,                \* observer: what the closure was asked and answered,
                        \* what the last iteration passed to progress_cb,
                        \* what the callback saw when it stopped as converged,
                        \* the number of final forward solves, and the
                        \* number of iterations the library has performed
    entry               \* the caller's data at entry (codec: the input)

inputs == << problem, progress_cb, report_freq, workspace_ok >>
globals == << x, global_best_x, global_best_f, all_traces, total_iterations,
              final_status, was_cancelled, restart >>
locals == << loss_trace, cancelled, best_x, best_f, last_valid_grad, recent_f >>
libvars == << lib, ctl, since_cb >>
vars == << inputs, state, pc, globals, locals, libvars, result, obs, entry >>

Lb == parameter_bounds(problem)[1]
Ub == parameter_bounds(problem)[2]

\* let report_freq = if report_freq == 0 { 1 } else { report_freq };
ReportFreq == IF report_freq = 0 THEN 1 ELSE report_freq

\* max_iter.saturating_sub(total_iterations)
RemainingIter == Max(problem.max_iterations - total_iterations, 0)

NoResult ==
    [kind |-> "none", err |-> "", q |-> << >>, anchor_positions |-> << >>,
     loss_trace |-> << >>, iterations |-> 0, converged |-> FALSE,
     termination_reason |-> ""]

ErrResult(e) == [NoResult EXCEPT !.kind = "Err", !.err = e]

NoObs ==
    [n_evals |-> 0, n_solves |-> 0, req |-> << >>, fwd |-> << >>,
     oracle |-> [ok |-> FALSE, val |-> 0, g |-> 0],
     ret |-> << 0, << >> >>,
     cb |-> << >>,
     stop |-> << >>,
     n_final |-> 0,
     n_iters |-> 0]

DriverIdle ==
    /\ global_best_x = << >> /\ global_best_f = PosInf
    /\ all_traces = << >> /\ total_iterations = 0 /\ final_status = "MaxIter"
    /\ was_cancelled = FALSE /\ restart = 0
    /\ loss_trace = << >> /\ cancelled = FALSE /\ best_x = << >>
    /\ best_f = PosInf /\ last_valid_grad = << >> /\ recent_f = << >>
    /\ lib = [iteration |-> 0, n_func_evals |-> 0, f |-> 0]
    /\ ctl = "Continue" /\ since_cb = 0
    /\ result = NoResult /\ obs = NoObs

Init ==
    /\ problem \in Problems
    /\ state \in InitialStates(problem)
    /\ \E c \in CallersOf(problem) : progress_cb = c[1] /\ report_freq = c[2]
    /\ workspace_ok \in BOOLEAN
    /\ pc = "start"
    /\ x = << >>
    /\ DriverIdle
    /\ entry = state

\* ------------------------------------------------------------------------
\*  optimize: set-up (lines 117-133)
\* ------------------------------------------------------------------------

Start ==
    /\ pc = "start"
    /\ LET x0 == project_to_bounds(pack_parameters(problem, state), Lb, Ub)
       IN  /\ x' = x0
           /\ global_best_x' = x0
    /\ global_best_f' = PosInf
    /\ all_traces' = << >>
    /\ total_iterations' = 0
    /\ final_status' = "MaxIter"
    /\ was_cancelled' = FALSE
    /\ restart' = 0
    /\ pc' = "loop"
    /\ UNCHANGED << inputs, state, locals, libvars, result, obs, entry >>

\* ------------------------------------------------------------------------
\*  optimize: head of the restart loop (lines 135-159)
\* ------------------------------------------------------------------------

\* Mutant: a restart begins from the best point of the sub-search that just
\* ended.
RestartFromLocalBest ==
    IF restart > 0
    THEN perturb_interior(best_x, Lb, Ub, problem.ne, 2 * restart)
    ELSE x

RestartPoint ==
    IF restart > 0
    THEN perturb_interior(global_best_x, Lb, Ub, problem.ne, 2 * restart)
    ELSE x

\* Mutant: the loop goes on until the budget is used up.
BudgetSpentAtZero == RemainingIter <= 0

\* if remaining_iter < 5 { break; }
BudgetSpent == RemainingIter < MinRemaining

LoopHead ==
    /\ pc = "loop"
    /\ x' = RestartPoint
    /\ IF BudgetSpent
       THEN /\ pc' = "final"
            /\ UNCHANGED << locals, libvars, result >>
       ELSE IF ~workspace_ok
       THEN \* FdmCache::new(problem)? returns the error
            /\ pc' = "done"
            /\ result' = ErrResult("Workspace")
            /\ UNCHANGED << locals, libvars >>
       ELSE /\ pc' = "search"
            /\ loss_trace' = << >>
            /\ cancelled' = FALSE
            /\ best_x' = RestartPoint
            /\ best_f' = PosInf
            /\ last_valid_grad' = Zeros(Len(RestartPoint))
            /\ recent_f' = << >>
            /\ lib' = [iteration |-> 0, n_func_evals |-> 0, f |-> 0]
            /\ ctl' = "Continue"
            /\ since_cb' = 0
            /\ UNCHANGED result
    /\ obs' = IF pc' = "search"
              THEN [obs EXCEPT !.cb = << >>, !.stop = << >>] ELSE obs
    /\ UNCHANGED << inputs, state, global_best_x, global_best_f, all_traces,
                    total_iterations, final_status, was_cancelled, restart,
                    entry >>

\* ------------------------------------------------------------------------
\*  The objective closure (lines 166-189)
\* ------------------------------------------------------------------------

\* Points the library may ask for: the sub-search's start point and constant
\* vectors, all inside the box.
GridValues == {2 * Unit}

Candidates ==
    {x} \cup { th \in { [i \in 1..Len(x) |-> v] : v \in GridValues } :
               InBox(th, Lb, Ub) }

Gradient(o, n) == [i \in 1..n |-> o.g]

\* let penalty = best_f.borrow().abs().max(1.0) * 1e6;
Penalty(bf) == FMulPos(Max(Abs(bf), 1), PenaltyFactor)

\* The closure's effect on the sub-search state and its return value, given
\* the answer o of value_and_gradient at theta.
ClosureOk(theta, o) ==
    /\ loss_trace' = Append(loss_trace, o.val)
    /\ last_valid_grad' = Gradient(o, Len(theta))
    /\ IF o.val < best_f
       THEN best_f' = o.val /\ best_x' = theta
       ELSE UNCHANGED << best_f, best_x >>

\* Mutant: a failed forward solve resets the last known-good gradient.
ClosureErrForgetsGradient(theta, o) ==
    /\ last_valid_grad' = Zeros(Len(theta))
    /\ UNCHANGED << loss_trace, best_f, best_x >>

ClosureErr(theta, o) ==
    UNCHANGED << loss_trace, last_valid_grad, best_f, best_x >>

ClosureReturn(theta, o) ==
    IF o.ok
    THEN << o.val, Gradient(o, Len(theta)) >>
    ELSE << Penalty(best_f), last_valid_grad >>

Closure(theta, o) ==
    /\ IF o.ok THEN ClosureOk(theta, o) ELSE ClosureErr(theta, o)
    /\ obs' = [obs EXCEPT !.n_evals = @ + 1,
                          !.n_solves = @ + 1,
                          !.req = theta,
                          !.fwd = theta,
                          !.oracle = o,
                          !.ret = ClosureReturn(theta, o),
                          !.cb = << >>]

\* Mutant: a failed forward solve is propagated (as with `?`) instead of
\* being answered with the penalty.
ObjectiveFailFast(theta, o) ==
    IF o.ok
    THEN /\ Closure(theta, o)
         /\ lib' = [lib EXCEPT !.n_func_evals = @ + 1, !.f = o.val]
         /\ since_cb' = since_cb + 1
         /\ UNCHANGED << pc, result >>
    ELSE /\ pc' = "done"
         /\ result' = ErrResult("Solver")
         /\ UNCHANGED << locals, lib, since_cb, obs >>

\* One call of the closure by the library: the closure acts and returns
\* (value, gradient) to the line search.
Objective(theta, o) ==
    /\ Closure(theta, o)
    /\ lib' = [lib EXCEPT !.n_func_evals = @ + 1,
                          !.f = ClosureReturn(theta, o)[1]]
    /\ since_cb' = since_cb + 1
    /\ UNCHANGED << pc, result >>

Evaluate ==
    /\ pc = "search"
    /\ ctl = "Continue"
    /\ lib.iteration < RemainingIter
    /\ obs.n_evals >= MaxFresh => since_cb = 0
    /\ \E theta \in Candidates \cup {obs.req}, o \in Outcomes :
          /\ obs.n_evals = 0 => theta \in Candidates
          /\ obs.n_evals >= MaxFresh => theta = obs.req
          \* the oracle is a function of theta
          /\ (obs.n_evals > 0 /\ theta = obs.req) => o = obs.oracle
          /\ Objective(theta, o)
    /\ UNCHANGED << inputs, state, globals, cancelled, recent_f, ctl, entry >>

\* ------------------------------------------------------------------------
\*  The iteration callback (lines 191-245)
\* ------------------------------------------------------------------------

Push(rf, val) ==
    LET a == Append(rf, val)
    IN  IF Len(a) > CONVERGENCE_WINDOW THEN Tail(a) ELSE a

\* rel_change < rel_tol for the window rf; a non-finite value makes
\* rel_change NaN, and the comparison false.
RelChangeSmall(rf) ==
    LET oldest == rf[1]
        newest == rf[Len(rf)]
        denom == Max(Max(Abs(oldest), Abs(newest)), 1)
    IN  /\ IsFinite(oldest) /\ IsFinite(newest)
        /\ Abs(oldest - newest) * problem.relative_tolerance[2]
               < problem.relative_tolerance[1] * denom

\* Mutant: the relative decrease alone stops the sub-search.
ConvergedOnDecreaseAlone(iteration, pg, rf) ==
    /\ total_iterations + iteration >= MIN_ITERATIONS_BEFORE_CONVERGENCE
    /\ Len(rf) >= 2
    /\ RelChangeSmall(rf)

ConvergedNow(iteration, pg, rf) ==
    /\ total_iterations + iteration >= MIN_ITERATIONS_BEFORE_CONVERGENCE
    /\ pg <= problem.absolute_tolerance
    /\ Len(rf) >= 2
    /\ RelChangeSmall(rf)

Reports(eval_count) ==
    progress_cb /\ (eval_count = 1 \/ eval_count % ReportFreq = 0)

\* cb(eval_count, val, ...): the arguments the callback is invoked with.
Invoke(eval_count, val) == << eval_count, val >>

Iterate ==
    /\ pc = "search"
    /\ ctl = "Continue"
    /\ since_cb >= 1
    /\ lib.iteration < RemainingIter
    /\ lib' = [lib EXCEPT !.iteration = @ + 1]
    /\ since_cb' = 0
    /\ recent_f' = Push(recent_f, lib.f)
    /\ \E pg \in ProjGradNorms, should_continue \in {0, 1} :
          IF ConvergedNow(lib.iteration + 1, pg, Push(recent_f, lib.f))
          THEN /\ ctl' = "StopConverged"
               /\ obs' = [obs EXCEPT
                             !.cb = << >>,
                             !.stop = << total_iterations + lib.iteration + 1,
                                         pg >>,
                             !.n_iters = @ + 1]
               /\ UNCHANGED cancelled
          ELSE IF Reports(lib.n_func_evals)
          THEN /\ obs' = [obs EXCEPT !.cb = Invoke(lib.n_func_evals, lib.f),
                                    !.n_iters = @ + 1]
               /\ IF should_continue = 0
                  THEN cancelled' = TRUE /\ ctl' = "StopCustom"
                  ELSE ctl' = "Continue" /\ UNCHANGED cancelled
          ELSE /\ ctl' = "Continue"
               /\ obs' = [obs EXCEPT !.cb = << >>, !.n_iters = @ + 1]
               /\ UNCHANGED cancelled
    /\ UNCHANGED << inputs, state, pc, globals, loss_trace, best_x, best_f,
                    last_valid_grad, result, entry >>

\* ------------------------------------------------------------------------
\*  minimize_with_callback returns; harvest and status handling
\*  (lines 161, 246-280)
\* ------------------------------------------------------------------------

\* What the library may return.  After StopConverged it reports a converged
\* status; pgtol is 0, so it reports none of its own accord.  It returns at
\* its iteration cap, and may give up earlier (line-search failure, or Err).
LibSolutions ==
    IF ctl = "StopConverged"
    THEN { [ok |-> TRUE, status |-> "Converged"] }
    ELSE IF ctl = "StopCustom"
    THEN { [ok |-> TRUE, status |-> "StoppedByCallback"],
           [ok |-> FALSE, status |-> "NumericalFailure"] }
    ELSE (IF lib.iteration >= RemainingIter
          THEN { [ok |-> TRUE, status |-> "MaxIter"] } ELSE {})
         \cup (IF lib.iteration <= MaxEarly
               THEN { [ok |-> TRUE, status |-> "LineSearchFailure"],
                      [ok |-> FALSE, status |-> "NumericalFailure"] }
               ELSE {})

\* final_status.contains("Converged"), over the statuses above
ContainsConverged(s) == s \in {"Converged"}

\* Mutant: the sub-search's best always replaces the global best.
HarvestLast == << best_f, best_x >>

\* if local_best_f < global_best_f { ... }
HarvestBest ==
    IF best_f < global_best_f
    THEN << best_f, best_x >>
    ELSE << global_best_f, global_best_x >>

\* Mutant: the cancellation flag does not end the loop.
BreaksIgnoringCancel(res, wc) ==
    IF res.ok THEN ContainsConverged(res.status) ELSE FALSE

\* Mutant: an Err of the library ends the loop.
BreaksOnErr(res, wc) ==
    IF res.ok THEN ContainsConverged(res.status) \/ wc ELSE TRUE

\* Mutant: a converged status does not end the loop.
BreaksOnlyOnCancel(res, wc) == wc

\* Whether the loop is left after a sub-search that returned res.
Breaks(res, wc) ==
    IF res.ok THEN ContainsConverged(res.status) \/ wc ELSE wc

\* Mutant: the trace of the sub-search replaces the accumulated one.
ReplaceTraces == loss_trace

\* all_traces.append(&mut loss_trace.into_inner());
AppendTraces == all_traces \o loss_trace

\* Mutant: the loop counter does not advance.
RestartStuck(leave) == restart

\* for restart in 0..=MAX_RESTARTS: the counter after a round not left
NextRestart(leave) == IF leave THEN restart ELSE restart + 1

Return ==
    /\ pc = "search"
    /\ \E res \in LibSolutions :
          LET wc == was_cancelled \/ cancelled
              leave == Breaks(res, wc) \/ restart = MAX_RESTARTS
          IN  /\ was_cancelled' = wc
              /\ all_traces' = AppendTraces
              /\ global_best_f' = HarvestBest[1]
              /\ global_best_x' = HarvestBest[2]
              /\ total_iterations' =
                    IF res.ok THEN total_iterations + lib.iteration
                    ELSE total_iterations
              /\ final_status' = res.status
              /\ restart' = NextRestart(leave)
              /\ pc' = IF leave THEN "final" ELSE "loop"
    /\ UNCHANGED << inputs, state, x, locals, libvars, result, obs, entry >>

\* ------------------------------------------------------------------------
\*  optimize: finalization (lines 282-311)
\* ------------------------------------------------------------------------

\* state.iterations
ReportedIterations ==
    IF total_iterations > 0 THEN total_iterations ELSE Len(all_traces)

\* Mutant: the loss trace is not written to the caller's state.
CommitWithoutTrace(st, qa) ==
    [st EXCEPT !.force_densities = qa[1],
               !.variable_anchor_positions = qa[2],
               !.iterations = ReportedIterations]

Commit(st, qa) ==
    [st EXCEPT !.force_densities = qa[1],
               !.variable_anchor_positions = qa[2],
               !.iterations = ReportedIterations,
               !.loss_trace = all_traces]

\* Mutant: the assignments to the caller's state precede the final solve.
CommittedEarly(st, qa, solve_ok) == Commit(st, qa)

\* The caller's state after lines 289-298: solve_fdm(...)? returns before
\* the assignments when the final solve fails.
Committed(st, qa, solve_ok) == IF solve_ok THEN Commit(st, qa) ELSE st

OkResult(qa) ==
    [kind |-> "Ok", err |-> "", q |-> qa[1], anchor_positions |-> qa[2],
     loss_trace |-> all_traces, iterations |-> ReportedIterations,
     converged |-> ContainsConverged(final_status),
     termination_reason |-> final_status]

Finalize ==
    /\ pc = "final"
    /\ pc' = "done"
    /\ IF was_cancelled
       THEN result' = ErrResult("Cancelled") /\ UNCHANGED state
       ELSE IF ~workspace_ok
       THEN result' = ErrResult("Workspace") /\ UNCHANGED state
       ELSE \E solve_ok \in BOOLEAN :
               LET qa == unpack_parameters(problem, global_best_x)
               IN  /\ state' = Committed(state, qa, solve_ok)
                   /\ result' = IF solve_ok THEN OkResult(qa)
                                 ELSE ErrResult("FinalSolve")
    /\ obs' = IF was_cancelled \/ ~workspace_ok THEN obs
              ELSE [obs EXCEPT !.n_final = @ + 1]
    /\ UNCHANGED << inputs, globals, locals, libvars, entry >>

Next == Start \/ LoopHead \/ Evaluate \/ Iterate \/ Return \/ Finalize

Spec == Init /\ [][Next]_vars

\* Termination is explored on the runs with the two smallest budgets.
InitLive == Init /\ problem.max_iterations <= MinRemaining

\* Every sub-search and every callback invocation returns: a step that can
\* be taken is eventually taken.
SpecLive == InitLive /\ [][Next]_vars /\ WF_vars(Next)

\* ------------------------------------------------------------------------
\*  The codec on its own: pack and unpack over all small shapes
\* ------------------------------------------------------------------------

CodecValues == {1, 2}

Vectors(n) == [1..n -> CodecValues]

CodecProblems ==
    { [ne |-> e, nvar |-> a, lower |-> [i \in 1..e |-> NegInf],
       upper |-> [i \in 1..e |-> PosInf], max_iterations |-> 0,
       absolute_tolerance |-> 1, relative_tolerance |-> << 1, 2 >>] :
      e \in 0..MaxEdges, a \in 0..MaxAnchors }

EmptyState ==
    [force_densities |-> << >>, variable_anchor_positions |-> << >>,
     iterations |-> 0, loss_trace |-> << >>]

CodecInit ==
    /\ problem \in CodecProblems
    /\ progress_cb = FALSE /\ report_freq = 1 /\ workspace_ok = TRUE
    /\ DriverIdle
    /\ \/ /\ pc = "codec_state"
          /\ \E q \in Vectors(problem.ne),
                a \in [1..problem.nvar -> Vectors(3)] :
                /\ state = [EmptyState EXCEPT !.force_densities = q,
                                              !.variable_anchor_positions = a]
                /\ entry = << q, a >>
          /\ x = << >>
       \/ /\ pc = "codec_theta"
          /\ x \in Vectors(problem.ne + 3 * problem.nvar)
          /\ entry = x
          /\ state = EmptyState

CodecPack ==
    /\ pc \in {"codec_state", "unpacked"}
    /\ x' = pack_parameters(problem, state)
    /\ pc' = IF pc = "codec_state" THEN "packed" ELSE "theta_back"
    /\ UNCHANGED << inputs, state, global_best_x, global_best_f, all_traces,
                    total_iterations, final_status, was_cancelled, restart,
                    locals, libvars, result, obs, entry >>

CodecUnpack ==
    /\ pc \in {"codec_theta", "packed"}
    /\ LET qa == unpack_parameters(problem, x)
       IN  state' = [state EXCEPT !.force_densities = qa[1],
                                  !.variable_anchor_positions = qa[2]]
    /\ pc' = IF pc = "codec_theta" THEN "unpacked" ELSE "state_back"
    /\ UNCHANGED << inputs, globals, locals, libvars, result, obs, entry >>

CodecNext == CodecPack \/ CodecUnpack

SpecCodec == CodecInit /\ [][CodecNext]_vars

\* ------------------------------------------------------------------------
\*  Properties
\* ------------------------------------------------------------------------

QInBox(q) == InBox(q, problem.lower, problem.upper)

\* The last closure call belongs to the running sub-search.
EvaluatedHere == pc = "search" /\ lib.n_func_evals >= 1

\* C1: every sub-search starts at a point inside the box, and when optimize
\* returns Ok every force density of SolverResult.q and of the committed
\* OptimizationState lies within [lower_bound, upper_bound] of its edge,
\* whatever the initial guess was.
C1_FinalInBox ==
    /\ pc = "search" => InBox(x, Lb, Ub)
    /\ result.kind = "Ok" =>
          /\ Len(result.q) = problem.ne
          /\ QInBox(result.q)
          /\ QInBox(state.force_densities)

\* C1 witness: a run from q = -10 (box [1, 3]) that restarted, evaluated and
\* returned Ok.
C1_Witness ==
    /\ result.kind = "Ok"
    /\ entry.force_densities = << 0 - 10 * Unit >>
    /\ restart >= 1
    /\ Len(all_traces) >= 1

\* C2: once the progress callback has returned the stop sentinel, no
\* objective evaluation happens, no new sub-search is started, and optimize
\* returns Err(Cancelled).
C2_CancelHalts ==
    [][ (cancelled \/ was_cancelled) =>
            /\ obs'.n_evals = obs.n_evals
            /\ pc' # "loop"
            /\ pc' = "search" => pc = "search"
            /\ pc' = "done" => result' = ErrResult("Cancelled") ]_vars

\* C2 witness: a run cancelled by the callback after at least one iteration
\* has returned.
C2_Witness ==
    /\ pc = "done"
    /\ was_cancelled
    /\ obs.n_evals >= 1
    /\ result.err = "Cancelled"

\* C3: the globally tracked best loss never increases, in any step of a run.
C3_GlobalBestMonotone == [][ global_best_f' <= global_best_f ]_vars

\* C3 witness: a later sub-search whose own best loss is worse than the
\* global best has been harvested.
C3_Witness ==
    /\ pc \in {"loop", "final"}
    /\ restart >= 1
    /\ IsFinite(best_f)
    /\ global_best_f < best_f

\* C4: pack yields force densities first, then the anchors row-major, of
\* length ne + 3 * nvar; unpack(pack(state)) gives back the force densities
\* and the anchor matrix; pack(unpack(theta)) gives back theta; without
\* variable anchors unpack yields the empty matrix.
C4_RoundTrip ==
    /\ pc = "packed" =>
          /\ Len(x) = problem.ne + 3 * problem.nvar
          /\ \A i \in 1..problem.ne : x[i] = state.force_densities[i]
          /\ \A i \in 1..problem.nvar : \A d \in 1..3 :
                x[problem.ne + 3 * (i - 1) + d]
                    = state.variable_anchor_positions[i][d]
    /\ pc = "state_back" =>
          << state.force_densities, state.variable_anchor_positions >> = entry
    /\ pc = "theta_back" => x = entry
    /\ (pc \in {"unpacked", "state_back"} /\ problem.nvar = 0) =>
          state.variable_anchor_positions = << >>

\* C4 witness: a state with two edges and two anchors whose rows differ has
\* been packed and unpacked again.
C4_Witness ==
    /\ pc = "state_back"
    /\ problem.ne = MaxEdges
    /\ problem.nvar = 2
    /\ state.variable_anchor_positions[1] = << 1, 2, 1 >>
    /\ state.variable_anchor_positions[2] = << 2, 2, 1 >>

\* C5 (as claimed): after a failed forward solve the closure returns a
\* finite penalty equal to max(|best_f|, 1) * 1e6.
C5_PenaltyFinite ==
    (EvaluatedHere /\ ~obs.oracle.ok) =>
        /\ IsFinite(obs.ret[1])
        /\ obs.ret[1] = Max(Abs(best_f), 1) * PenaltyFactor

\* C6: optimize returns an error only when the run was cancelled, when the
\* workspace cannot be constructed, or when the final forward solve fails;
\* a failed forward solve inside a sub-search never does.
C6_FailureRecovered ==
    pc = "done" =>
        \/ result.kind = "Ok"
        \/ result = ErrResult("Cancelled") /\ was_cancelled
        \/ result = ErrResult("Workspace") /\ ~workspace_ok
        \/ result = ErrResult("FinalSolve")

\* C6 witness: a run with a failed forward solve in a sub-search that
\* returned Ok.
C6_Witness ==
    /\ pc = "done"
    /\ result.kind = "Ok"
    /\ obs.n_evals > Len(all_traces)

\* C7 (as claimed): when the last sub-search ended with an Err of the
\* library, optimize does not return Ok.
C7_ErrIsFatal ==
    (pc = "done" /\ final_status = "NumericalFailure") => result.kind # "Ok"

\* C7 (amended): an Err of the library is recorded as the termination reason
\* and the loop goes on; it is left after an Err only on cancellation, at the
\* last restart, or when the remaining budget is below 5.  The result is then
\* Ok with converged = false and the error text as termination reason,
\* unless the run was cancelled or the final forward solve fails.
C7_ErrReported ==
    final_status = "NumericalFailure" =>
        /\ pc = "final" =>
              \/ was_cancelled
              \/ restart = MAX_RESTARTS
              \/ RemainingIter < MinRemaining
        /\ pc = "done" =>
              \/ /\ result.kind = "Ok"
                 /\ ~result.converged
                 /\ result.termination_reason = "NumericalFailure"
              \/ result = ErrResult("Cancelled") /\ was_cancelled
              \/ result = ErrResult("FinalSolve")

\* C7 witness: every sub-search returned Err and optimize returned Ok.
C7_Witness ==
    /\ pc = "done"
    /\ restart = MAX_RESTARTS
    /\ total_iterations = 0
    /\ result.kind = "Ok"
    /\ result.termination_reason = "NumericalFailure"

\* C8 (as claimed): an evaluation request at the vector of the previous
\* request of the sub-search triggers no forward solve and adds no entry to
\* the loss trace.
C8_Memoized ==
    [][ ( /\ EvaluatedHere
          /\ obs'.n_evals = obs.n_evals + 1
          /\ obs'.req = obs.req ) =>
            /\ obs'.n_solves = obs.n_solves
            /\ loss_trace' = loss_trace ]_vars

\* C9 (as claimed): no parameter vector with a non-finite component is
\* forwarded to the forward solve.
C9_NonFiniteNotForwarded == obs.n_solves > 0 => AllFinite(obs.fwd)

\* C10 (as claimed): a successful forward solve with a non-finite loss or
\* gradient leaves no non-finite entry in the loss trace, does not become
\* the last known-good gradient, and is not returned to the solver.
C10_NonFiniteRejected ==
    ( /\ EvaluatedHere
      /\ obs.oracle.ok
      /\ ~(IsFinite(obs.oracle.val) /\ IsFinite(obs.oracle.g)) ) =>
        /\ AllFinite(loss_trace)
        /\ AllFinite(last_valid_grad)
        /\ IsFinite(obs.ret[1])

\* C11 (as claimed): with a progress callback, an evaluation whose index is 1
\* or a multiple of the normalised report frequency is followed by an
\* invocation of the callback with that index and that evaluation's loss,
\* before anything else happens.
C11_EveryReportableReported ==
    [][ ( /\ pc = "search"
          /\ since_cb >= 1
          /\ Reports(lib.n_func_evals) ) =>
            obs'.cb = Invoke(lib.n_func_evals, obs.ret[1]) ]_vars

\* C12: the caller's OptimizationState keeps its entry value in every step
\* of the sub-searches and restarts and whenever optimize returns an error;
\* the only step that writes it is the final commit of a run returning Ok.
C12_StateFrame ==
    /\ pc # "done" => state = entry
    /\ result.kind = "Err" => state = entry
    /\ result.kind = "Ok" =>
          state = [force_densities |-> result.q,
                   variable_anchor_positions |-> result.anchor_positions,
                   iterations |-> result.iterations,
                   loss_trace |-> result.loss_trace]

\* C12 witness: the final forward solve failed after a sub-search that
\* found a point different from the caller's guess.
C12_Witness ==
    /\ result = ErrResult("FinalSolve")
    /\ IsFinite(global_best_f)
    /\ global_best_x # entry.force_densities

\* C13 (as claimed): on every termination path, the cancelled one included,
\* finalization runs one fresh forward solve at the global best point and
\* commits it (unless the workspace or that solve fails).
C13_AllPathsCommit ==
    (pc = "done" /\ result.err \notin {"Workspace", "FinalSolve"}) =>
        /\ obs.n_final = 1
        /\ result.kind = "Ok"
        /\ state.force_densities = unpack_parameters(problem, global_best_x)[1]

\* C13 (amended): a cancelled run returns Err(Cancelled) before
\* finalization: no unpacking, no forward solve, no commit.  On every other
\* termination path finalization runs exactly one forward solve at the
\* unpacked global best point, and when it succeeds the force densities,
\* anchor positions, iteration count and loss trace committed to
\* OptimizationState equal those of the returned SolverResult.
C13_FinalizeCommits ==
    /\ obs.n_final <= 1
    /\ pc # "done" => obs.n_final = 0
    /\ pc = "done" =>
          /\ was_cancelled =>
                obs.n_final = 0 /\ result = ErrResult("Cancelled")
          /\ (~was_cancelled /\ workspace_ok) => obs.n_final = 1
          /\ result.kind = "Ok" =>
                /\ obs.n_final = 1
                /\ << result.q, result.anchor_positions >>
                       = unpack_parameters(problem, global_best_x)
                /\ state.force_densities = result.q
                /\ state.variable_anchor_positions = result.anchor_positions
                /\ state.iterations = result.iterations
                /\ state.loss_trace = result.loss_trace
                /\ result.loss_trace = all_traces

\* C13 witness: a run that stopped on its budget, with a variable anchor
\* and a trace of at least two losses, has been committed.
C13_Witness ==
    /\ pc = "done"
    /\ result.kind = "Ok"
    /\ result.termination_reason = "MaxIter"
    /\ problem.nvar = 1
    /\ Len(state.loss_trace) >= 2

\* C14: the callback stops a sub-search as converged only at an iteration
\* where the cumulative iteration count is at least 10, the projected
\* gradient norm is at most the absolute tolerance and the relative change
\* between the oldest and the newest of the (at most 5) windowed values is
\* below the relative tolerance; a result with converged = true reports at
\* least 10 iterations.
C14_ConvergedNeedsAll ==
    /\ Len(recent_f) <= CONVERGENCE_WINDOW
    /\ (pc = "search" /\ ctl = "StopConverged") =>
          /\ obs.stop = << total_iterations + lib.iteration,
                           obs.stop[2] >>
          /\ obs.stop[1] >= MIN_ITERATIONS_BEFORE_CONVERGENCE
          /\ obs.stop[2] <= problem.absolute_tolerance
          /\ Len(recent_f) >= 2
          /\ recent_f[Len(recent_f)] = lib.f
          /\ RelChangeSmall(recent_f)
    /\ (pc = "search" /\ ctl # "StopConverged") => obs.stop = << >>
    /\ (result.kind = "Ok" /\ result.converged) =>
          /\ total_iterations >= MIN_ITERATIONS_BEFORE_CONVERGENCE
          /\ result.iterations >= MIN_ITERATIONS_BEFORE_CONVERGENCE

\* C14 witness: a restarted sub-search is stopped as converged at an
\* iteration of its own below 10, the cumulative count having reached 10.
C14_Witness ==
    /\ pc = "search"
    /\ ctl = "StopConverged"
    /\ total_iterations >= 1
    /\ lib.iteration < MIN_ITERATIONS_BEFORE_CONVERGENCE

\* The lowest loss of a trace; +infinity for the empty trace.
MinLoss(tr) ==
    IF tr = << >> THEN PosInf
    ELSE CHOOSE m \in { tr[i] : i \in 1..Len(tr) } :
            \A i \in 1..Len(tr) : m <= tr[i]

\* The projected initial point.
ProjectedGuess == project_to_bounds(pack_parameters(problem, entry), Lb, Ub)

\* C15: every restart begins at the perturbed global best point; the global
\* best loss is the lowest successfully evaluated loss of all sub-searches,
\* the global best point is replaced only by the point of a strictly lower
\* successful evaluation (it is the projected initial point while no
\* finite loss was evaluated), and the result is unpacked from it.
C15_GlobalBestKept ==
    /\ [] ( /\ (pc = "search" /\ restart > 0) =>
                  x = perturb_interior(global_best_x, Lb, Ub, problem.ne,
                                       2 * restart)
            /\ pc \in {"loop", "final", "done"} =>
                  global_best_f = MinLoss(all_traces)
            /\ pc = "search" =>
                  Min(global_best_f, best_f)
                      = MinLoss(all_traces \o loss_trace)
            /\ (pc # "start" /\ global_best_f = PosInf) =>
                  global_best_x = ProjectedGuess
            /\ result.kind = "Ok" =>
                  << result.q, result.anchor_positions >>
                      = unpack_parameters(problem, global_best_x) )
    /\ [][ /\ ( /\ pc = "search"
                /\ obs'.n_evals = obs.n_evals + 1
                /\ obs'.oracle.ok
                /\ obs'.oracle.val < best_f ) => best_x' = obs'.req
           /\ ( /\ pc = "search"
                /\ obs'.n_evals = obs.n_evals + 1
                /\ ~(obs'.oracle.ok /\ obs'.oracle.val < best_f) ) =>
                    best_x' = best_x
           /\ (pc # "start" /\ global_best_x' # global_best_x) =>
                /\ pc = "search" /\ pc' # "search"
                /\ best_f < global_best_f
                /\ global_best_x' = best_x ]_vars

\* C15 witness: the result of a restarted run is not the best point of its
\* last sub-search, whose best loss was worse than the global best.
C15_Witness ==
    /\ pc = "done"
    /\ result.kind = "Ok"
    /\ restart >= 1
    /\ IsFinite(best_f)
    /\ global_best_f < best_f
    /\ result.q # SubSeq(best_x, 1, problem.ne)

\* C16: a run makes at most 3 restarts (4 sub-searches), and a sub-search
\* is only ever started with a remaining iteration budget of at least 5.
C16_RestartsBounded ==
    /\ restart \in 0..MAX_RESTARTS
    /\ pc = "search" =>
          problem.max_iterations - total_iterations >= MinRemaining

\* C16 witness: after a restart the loop is left before its last round
\* because the remaining budget is below 5.
C16_Witness ==
    /\ pc = "final"
    /\ restart \in 1..(MAX_RESTARTS - 1)
    /\ final_status = "MaxIter"
    /\ ~was_cancelled
    /\ problem.max_iterations - total_iterations < MinRemaining

\* C17: a sub-search after the first is only ever running when the one
\* before it ended neither converged nor cancelled; once a sub-search has
\* ended with a Converged status (which it does only after the callback
\* returned StopConverged) there is no further sub-search and no further
\* evaluation, and a returned SolverResult has converged = true exactly in
\* that case.
C17_RestartOnlyAfterFailure ==
    /\ [] ( /\ (pc = "search" /\ restart > 0) =>
                  /\ ~ContainsConverged(final_status)
                  /\ ~was_cancelled
            /\ ContainsConverged(final_status) =>
                  /\ pc \in {"final", "done"}
                  /\ ctl = "StopConverged"
                  /\ ~was_cancelled
            /\ (pc = "done" /\ ContainsConverged(final_status)) =>
                  \/ result.kind = "Ok" /\ result.converged
                  \/ result = ErrResult("FinalSolve")
            /\ (result.kind = "Ok" /\ result.converged) =>
                  ContainsConverged(final_status) )
    /\ [][ ContainsConverged(final_status) =>
               /\ obs'.n_evals = obs.n_evals
               /\ restart' = restart
               /\ pc' \in {"final", "done"} ]_vars

\* C17 witness: a restarted sub-search ended converged and the run returned
\* converged = true.
C17_Witness ==
    /\ pc = "done"
    /\ result.kind = "Ok"
    /\ result.converged
    /\ restart >= 1

\* The losses recorded so far in the run, in recording order.
RunTrace == IF pc = "search" THEN all_traces \o loss_trace ELSE all_traces

\* C18 (as claimed): the returned trace holds exactly one entry per
\* forward-solve evaluation of the run.
C18_OneEntryPerSolve ==
    result.kind = "Ok" => Len(result.loss_trace) = obs.n_solves

\* C18 (amended): the trace grows by exactly the loss of each successful
\* forward-solve evaluation, at its end, and no other step (a failed
\* forward solve, an iteration, the end of a sub-search, a restart) changes
\* it; the trace returned and committed is this trace.
C18_TraceAppendOnly ==
    /\ [][ IF obs'.n_solves = obs.n_solves + 1 /\ obs'.oracle.ok
           THEN RunTrace' = Append(RunTrace, obs'.oracle.val)
           ELSE RunTrace' = RunTrace ]_vars
    /\ [] ( result.kind = "Ok" =>
                /\ result.loss_trace = RunTrace
                /\ state.loss_trace = RunTrace )

\* C18 witness: a returned trace made of the traces of several sub-searches
\* in a run that also had a failed forward solve.
C18_Witness ==
    /\ pc = "done"
    /\ result.kind = "Ok"
    /\ Len(loss_trace) >= 1
    /\ Len(result.loss_trace) > Len(loss_trace)
    /\ obs.n_solves > Len(result.loss_trace)

\* Entry i is a force density whose bounds are finite with upper > lower.
Perturbable(i) ==
    /\ i <= problem.ne
    /\ IsFinite(Lb[i]) /\ IsFinite(Ub[i])
    /\ Ub[i] > Lb[i]

C20_OnBoundStays ==
    (pc = "search" /\ restart > 0) =>
        \A i \in 1..problem.ne :
            global_best_x[i] \in {Lb[i], Ub[i]} =>
                x[i] = global_best_x[i]

\* C21 (as claimed): the number of iterations the library has performed in
\* all sub-searches of the run never exceeds max_iterations.
C21_IterationsWithinBudget == obs.n_iters <= problem.max_iterations

\* C22 (as claimed): the iteration count of a returned SolverResult and of
\* the committed OptimizationState is at most max_iterations.
C22_ReportedWithinBudget ==
    result.kind = "Ok" =>
        /\ result.iterations <= problem.max_iterations
        /\ state.iterations <= problem.max_iterations

\* The gradient value_and_gradient returns together with the loss v.
GradOfLoss(v, n) ==
    [i \in 1..n |-> (CHOOSE o \in Outcomes : o.ok /\ o.val = v).g]

\* C23: an evaluation whose forward solve fails leaves the loss trace, the
\* sub-search's best loss and best point and the last known-good gradient
\* as they were, and returns that gradient, which is the gradient of the most
\* recent successful evaluation of the sub-search, or the zero vector when
\* there has been none.
C23_FailedEvalFrame ==
    /\ [] ( pc = "search" =>
                last_valid_grad
                    = IF loss_trace = << >> THEN Zeros(Len(x))
                      ELSE GradOfLoss(loss_trace[Len(loss_trace)], Len(x)) )
    /\ [][ ( /\ pc = "search"
             /\ obs'.n_evals = obs.n_evals + 1
             /\ ~obs'.oracle.ok ) =>
                /\ loss_trace' = loss_trace
                /\ best_f' = best_f
                /\ best_x' = best_x
                /\ last_valid_grad' = last_valid_grad
                /\ obs'.ret[2] = last_valid_grad ]_vars

\* C23 witness: a forward solve has just failed in a sub-search that had a
\* successful evaluation before, and its gradient was returned.
C23_Witness ==
    /\ EvaluatedHere
    /\ since_cb >= 1
    /\ ~obs.oracle.ok
    /\ loss_trace # << >>
    /\ obs.ret[2] = GradOfLoss(loss_trace[Len(loss_trace)], Len(x))
    /\ obs.ret[2] # Zeros(Len(x))

\* C24: optimize terminates; it starts at most 4 sub-searches; it returns
\* once, with Ok(SolverResult), Err(Cancelled), or the error of the
\* workspace construction or of the final forward solve; with
\* max_iterations < 5 it runs no sub-search and no evaluation, and what it
\* returns, the final solve succeeding, is Ok with the projected initial
\* point, an empty loss trace, converged = false and the reason "MaxIter".
C24_Terminates ==
    /\ <>(pc = "done")
    /\ [][pc # "done"]_vars
    /\ [] ( /\ restart \in 0..MAX_RESTARTS
            /\ pc # "done" => result = NoResult
            /\ pc = "done" =>
                  \/ result.kind = "Ok"
                  \/ result \in { ErrResult("Cancelled"),
                                  ErrResult("Workspace"),
                                  ErrResult("FinalSolve") }
            /\ problem.max_iterations < MinRemaining =>
                  /\ pc # "search"
                  /\ obs.n_evals = 0
                  /\ pc = "done" =>
                        \/ result \in { ErrResult("Workspace"),
                                        ErrResult("FinalSolve") }
                        \/ /\ result.kind = "Ok"
                           /\ << result.q, result.anchor_positions >>
                                 = unpack_parameters(problem, ProjectedGuess)
                           /\ result.loss_trace = << >>
                           /\ ~result.converged
                           /\ result.termination_reason = "MaxIter" )

\* C24 witness: a run with max_iterations < 5 has returned Ok with the
\* projected initial point, which is not the caller's guess.
C24_Witness ==
    /\ pc = "done"
    /\ problem.max_iterations < MinRemaining
    /\ result.kind = "Ok"
    /\ result.q # entry.force_densities
    /\ obs.n_final = 1

=============================================================================
